---- MODULE Spec2Model ----
(***************************************************************************)
(* RepoPacker (src/App.tsx, src/services/githubService.ts,                 *)
(* components/FileTree): path tree materialisation, tri-state selection,   *)
(* window-bounded content retrieval, structure text and bundle generation. *)
(*                                                                          *)
(* Strings are sequences of symbols.  A symbol is one character ("/", ".") *)
(* or a run of characters that the code never looks inside ("a", "ts",     *)
(* "png", "root"), so split, join, slice and pop act on them as the        *)
(* JavaScript originals act on characters.  The empty string is << >>.     *)
(***************************************************************************)
EXTENDS Integers, Sequences, FiniteSets, TLC

VARIABLES
    items,               \* App.tsx:118  listing handed to buildTree (last fetch cycle)
    treeData,            \* App.tsx:61   null (NoTree) or the tree, as its nodes in creation order
    selection,           \* App.tsx:62   SelectionState: path -> boolean, partial
    selectionStatusMap,  \* App.tsx:75   memo of (treeData, selection), refreshed on every render
    isLoading,           \* App.tsx:59
    error,               \* App.tsx:60
    hpc,                 \* position of handleFetch: idle, or the call it awaits
    lastOp,              \* the handler that ran last and its arguments (observation only)
    files,               \* githubService.ts:58  argument of fetchFileContents
    limit,               \* githubService.ts:5   window size used by the run
    i,                   \* githubService.ts:65  loop index (0-based)
    req,                 \* per file: progress of the async callback of chunk.map
    results,             \* githubService.ts:59
    fpc,                 \* position of fetchFileContents: idle, await, returned, threw
    content,             \* per file: what response.text() or response.blob() gave
    output,              \* App.tsx:64
    isGenerating,        \* App.tsx:65
    activeRepoDetails,   \* App.tsx:67
    gen,                 \* what the running generateOutput closed over when it was called
    rendered             \* the value buildAsciiIndex returned when called on its own

vars == <<items, treeData, selection, selectionStatusMap, isLoading, error, hpc, lastOp,
          files, limit, i, req, results, fpc, content,
          output, isGenerating, activeRepoDetails, gen, rendered>>

genVars == <<isGenerating, gen, rendered>>
appVars == <<items, treeData, selection, selectionStatusMap, isLoading, error, hpc, lastOp,
             output, activeRepoDetails, genVars>>
fetchVars == <<files, limit, i, req, results, fpc, content>>

----------------------------------------------------------------------------
(* Bounds *)

MaxDepth == 3        \* segments per listed path
MaxListing == 4      \* records per listing of a fetch cycle
MaxItems == 2        \* records per input of buildTree taken alone
MaxTreeDepth == 2    \* segments per path of such an input
MaxFiles == 4        \* files per call of fetchFileContents
MaxLimit == 2        \* window sizes tried: 1..MaxLimit
MaxGenListing == 2   \* records per listing of a session that generates
MaxGenDepth == 2     \* segments per path of such a listing

----------------------------------------------------------------------------
(* JavaScript string and array primitives *)

Slash == "/"
Dot == "."
EmptyStr == << >>

RECURSIVE Split(_, _)
\* String.prototype.split(sep) for a one-character separator
Split(s, sep) ==
    IF \E k \in 1..Len(s) : s[k] = sep
    THEN LET k == CHOOSE k \in 1..Len(s) : s[k] = sep /\ \A j \in 1..(k - 1) : s[j] # sep
         IN  <<SubSeq(s, 1, k - 1)>> \o Split(SubSeq(s, k + 1, Len(s)), sep)
    ELSE <<s>>

RECURSIVE Join(_, _)
\* Array.prototype.join(sep)
Join(parts, sep) ==
    IF Len(parts) = 0 THEN EmptyStr
    ELSE IF Len(parts) = 1 THEN parts[1]
    ELSE parts[1] \o <<sep>> \o Join(Tail(parts), sep)

\* String.prototype.toLowerCase, symbol by symbol
LowerSym(c) == IF c = "TS" THEN "ts" ELSE IF c = "PNG" THEN "png" ELSE c
ToLowerCase(s) == [k \in 1..Len(s) |-> LowerSym(s[k])]

\* path.split('.').pop()?.toLowerCase() || ''
Ext(path) == LET parts == Split(path, Dot) IN ToLowerCase(parts[Len(parts)])

CODE_EXTS ==
    { <<e>> : e \in {"js", "ts", "jsx", "tsx", "py", "java", "cpp", "h", "html", "css", "md",
                     "json", "go", "rs", "php", "rb", "sql", "yaml", "yml", "toml"} }
IMAGE_EXTENSIONS == { <<e>> : e \in {"png", "jpg", "jpeg", "gif", "webp", "ico"} }

\* Array.prototype.slice(from, to) with 0-based, end-exclusive indices
Slice(s, from, to) == SubSeq(s, from + 1, IF to < Len(s) THEN to ELSE Len(s))

----------------------------------------------------------------------------
(* TreeNode and buildTree *)

NoTree == << >>
RootName == <<"root">>

\* A TreeNode.  key is the chain of children keys that leads to it from the
\* root: the nested children objects of the code, flattened.
Node(key, name, path, type, sha, url) ==
    [key |-> key, name |-> name, path |-> path, type |-> type, sha |-> sha, url |-> url]

RootNode == Node(<< >>, RootName, EmptyStr, "tree", EmptyStr, EmptyStr)

HasNode(ns, key) == \E n \in 1..Len(ns) : ns[n].key = key
NodeAt(ns, key) == ns[CHOOSE n \in 1..Len(ns) : ns[n].key = key]

\* Object.values(node.children): the children in insertion order
Children(ns, key) ==
    SelectSeq(ns, LAMBDA c : Len(c.key) = Len(key) + 1 /\ SubSeq(c.key, 1, Len(key)) = key)

\* the terminal test dropped: every segment created takes the record's fields
AddPartAllTerminal(ns, item, parts, index) ==
    LET key == SubSeq(parts, 1, index + 1)
    IN  IF HasNode(ns, key) THEN ns
        ELSE Append(ns, Node(key, parts[index + 1],
                             Join(Slice(parts, 0, index + 1), Slash),
                             item.type, item.sha, item.url))

\* the body of parts.forEach for one part; index is 0-based as in the code
AddPart(ns, item, parts, index) ==
    LET key == SubSeq(parts, 1, index + 1)
        last == (index = Len(parts) - 1)
    IN  IF HasNode(ns, key) THEN ns
        ELSE Append(ns, Node(key, parts[index + 1],
                             Join(Slice(parts, 0, index + 1), Slash),
                             IF last THEN item.type ELSE "tree",
                             IF last THEN item.sha ELSE EmptyStr,
                             IF last THEN item.url ELSE EmptyStr))

RECURSIVE AddParts(_, _, _, _)
AddParts(ns, item, parts, index) ==
    IF index >= Len(parts) THEN ns
    ELSE AddParts(AddPart(ns, item, parts, index), item, parts, index + 1)

\* the body of items.forEach for one item
AddItem(ns, item) == AddParts(ns, item, Split(item.path, Slash), 0)

RECURSIVE AddItems(_, _)
AddItems(ns, its) ==
    IF Len(its) = 0 THEN ns ELSE AddItems(AddItem(ns, Head(its)), Tail(its))

buildTree(its) == AddItems(<<RootNode>>, its)

----------------------------------------------------------------------------
(* Listings *)

Names == { <<"a">>, <<"b", Dot, "ts">> }
Kinds == {"blob", "tree"}

SegSeqs(d) == UNION { [1..n -> Names] : n \in 1..d }
PathsTo(d) == { Join(s, Slash) : s \in SegSeqs(d) }
Paths == PathsTo(MaxDepth)

\* the locator GitHub gives the record at position k of a listing
ShaOf(k) == <<"sha", ToString(k)>>
UrlOf(k) == <<"url", ToString(k)>>
Item(path, type, k) == [path |-> path, type |-> type, sha |-> ShaOf(k), url |-> UrlOf(k)]

SymRank(c) == IF c = Dot THEN 0 ELSE IF c = Slash THEN 1 ELSE IF c = "a" THEN 2
              ELSE IF c = "b" THEN 3 ELSE 4

RECURSIVE StrLess(_, _)
StrLess(s, t) ==
    IF Len(t) = 0 THEN FALSE
    ELSE IF Len(s) = 0 THEN TRUE
    ELSE IF s[1] # t[1] THEN SymRank(s[1]) < SymRank(t[1])
    ELSE StrLess(Tail(s), Tail(t))

IsPrefix(s, t) == Len(s) <= Len(t) /\ SubSeq(t, 1, Len(s)) = s

\* sequences of n records with distinct paths drawn from P
RecordLists(P, n) ==
    { its \in [1..n -> [path : P, type : Kinds]] :
        \A j, k \in 1..n : j # k => its[j].path # its[k].path }

WithRefs(its) == [k \in 1..Len(its) |-> Item(its[k].path, its[k].type, k)]

\* What the git trees endpoint answers (data.tree): entries in tree order, every
\* directory listed before what it holds, no entry below a blob.  A tree entry
\* with nothing below it is kept: a truncated listing and an empty tree object
\* both give one.
ParentPath(path) ==
    LET parts == Split(path, Slash) IN Join(SubSeq(parts, 1, Len(parts) - 1), Slash)

CanFollow(its, rec) ==
    /\ Len(its) > 0 => StrLess(its[Len(its)].path, rec.path)
    /\ Len(Split(rec.path, Slash)) > 1 =>
          \E j \in 1..Len(its) : its[j].path = ParentPath(rec.path) /\ its[j].type = "tree"

RECURSIVE ListingsOver(_, _)
\* the listings of exactly n records with paths from P, without their locators
ListingsOver(P, n) ==
    IF n = 0 THEN { <<>> }
    ELSE { Append(its, rec) : <<its, rec>> \in
             { pair \in ListingsOver(P, n - 1) \X [path : P, type : Kinds] :
                 CanFollow(pair[1], pair[2]) } }

ListingsOf(n) == ListingsOver(Paths, n)

Listings == { WithRefs(its) : its \in UNION { ListingsOf(n) : n \in 0..MaxListing } }

----------------------------------------------------------------------------
(* SelectionState and the status map *)

\* selection[path] read as a condition: an absent key is undefined, which is falsy
Sel(sel, path) == path \in DOMAIN sel /\ sel[path]

\* obj[key] = value
Put(map, key, value) ==
    [k \in (DOMAIN map) \cup {key} |-> IF k = key THEN value ELSE map[k]]

EmptyMap == [k \in {} |-> FALSE]

allChecked(statuses) == \A k \in 1..Len(statuses) : statuses[k] = "checked"
allUnchecked(statuses) == \A k \in 1..Len(statuses) : statuses[k] = "unchecked"

\* statuses.some in place of statuses.every for allChecked
AggregateSome(statuses) ==
    IF \E k \in 1..Len(statuses) : statuses[k] = "checked" THEN "checked"
    ELSE IF allUnchecked(statuses) THEN "unchecked" ELSE "indeterminate"

\* App.tsx:93
Aggregate(statuses) ==
    IF allChecked(statuses) THEN "checked"
    ELSE IF allUnchecked(statuses) THEN "unchecked" ELSE "indeterminate"

\* App.tsx:81
LeafStatus(sel, path) == IF Sel(sel, path) THEN "checked" ELSE "unchecked"

RECURSIVE compute(_, _, _, _)
RECURSIVE computeEach(_, _, _, _, _)
\* compute(node) with the map threaded through: [s |-> status returned, map |-> map after]
compute(ns, sel, map, node) ==
    IF node.type = "blob"
    THEN LET s == LeafStatus(sel, node.path) IN [s |-> s, map |-> Put(map, node.path, s)]
    ELSE LET children == Children(ns, node.key) IN
         IF Len(children) = 0
         THEN [s |-> "unchecked", map |-> Put(map, node.path, "unchecked")]
         ELSE LET r == computeEach(ns, sel, map, children, <<>>)
                  status == Aggregate(r.statuses)
              IN  [s |-> status, map |-> Put(r.map, node.path, status)]

\* children.map(c => compute(c))
computeEach(ns, sel, map, children, statuses) ==
    IF Len(children) = 0 THEN [statuses |-> statuses, map |-> map]
    ELSE LET r == compute(ns, sel, map, Head(children))
         IN  computeEach(ns, sel, r.map, Tail(children), Append(statuses, r.s))

\* the useMemo body
computeStatusMap(tree, sel) ==
    IF tree = NoTree THEN EmptyMap ELSE compute(tree, sel, EmptyMap, tree[1]).map

\* statusMap[path], undefined when absent
StatusAt(map, path) == IF path \in DOMAIN map THEN map[path] ELSE "undefined"

----------------------------------------------------------------------------
(* Tree walks shared by the handlers *)

RECURSIVE Preorder(_, _)
RECURSIVE PreorderEach(_, _)
\* the nodes a walk "visit node, then Object.values(node.children).forEach(walk)" meets
Preorder(ns, node) == <<node>> \o PreorderEach(ns, Children(ns, node.key))
PreorderEach(ns, children) ==
    IF Len(children) = 0 THEN <<>>
    ELSE Preorder(ns, Head(children)) \o PreorderEach(ns, Tail(children))

RECURSIVE PutAll(_, _, _)
PutAll(map, paths, value) ==
    IF Len(paths) = 0 THEN map ELSE PutAll(Put(map, Head(paths), value), Tail(paths), value)

\* the paths of the blob nodes of a walk, in walk order
BlobPaths(walk) ==
    LET blobs == SelectSeq(walk, LAMBDA n : n.type = "blob")
    IN  [k \in 1..Len(blobs) |-> blobs[k].path]

----------------------------------------------------------------------------
(* buildAsciiIndex (App.tsx:41-54) *)

NL == "\n"
\* the box-drawing connectors and indents of App.tsx:46,48, each one symbol
LastConnector == "+-- "
MidConnector == "|-- "
LastIndent == "    "
MidIndent == "|   "

\* Array.prototype.join of strings, with the empty separator
RECURSIVE Concat(_)
Concat(strs) == IF Len(strs) = 0 THEN EmptyStr ELSE Head(strs) \o Concat(Tail(strs))

RECURSIVE buildAsciiIndex(_, _, _, _)
buildAsciiIndex(ns, node, prefix, isLast) ==
    LET children == Children(ns, node.key) IN
    IF node.name = RootName
    THEN Concat([k \in 1..Len(children) |->
                    buildAsciiIndex(ns, children[k], EmptyStr, k = Len(children))])
    ELSE LET connector == IF isLast THEN LastConnector ELSE MidConnector
             childPrefix == prefix \o <<IF isLast THEN LastIndent ELSE MidIndent>>
         IN  prefix \o <<connector>> \o node.name \o <<NL>>
             \o Concat([k \in 1..Len(children) |->
                          buildAsciiIndex(ns, children[k], childPrefix, k = Len(children))])

\* buildAsciiIndex(treeData), the defaults of prefix and isLast taken
AsciiIndex(tree) == buildAsciiIndex(tree, tree[1], EmptyStr, TRUE)

\* the lines of a text that ends every line with a newline
Lines(text) == LET parts == Split(text, NL) IN SubSeq(parts, 1, Len(parts) - 1)

----------------------------------------------------------------------------
(* App: handlers *)

NoError == "null"

\* the value JavaScript calls undefined, as a template literal prints it
Undefined == <<"undefined">>

\* what parseRepoUrl returns for the URLs typed in (githubService.ts:7-22), and the
\* initial null of activeRepoDetails as the optional chaining of App.tsx:192 reads it
Repos == { [owner |-> <<"o">>, repo |-> <<"r1">>], [owner |-> <<"o">>, repo |-> <<"r2">>] }
NoRepo == [owner |-> Undefined, repo |-> Undefined]
NoGen == [tree |-> NoTree, repo |-> NoRepo]
\* lastOp: the handler that ran, the path it was given, and the status it read for it
NoOp == [op |-> "none", path |-> EmptyStr, status |-> "undefined"]
Op(op, path, status) == [op |-> op, path |-> path, status |-> status]

\* FileTree renders a node when every directory above it is rendered as a
\* directory (isDirectory && isExpanded); the root itself gets no row.
Rendered(tree, node) ==
    /\ Len(node.key) >= 1
    /\ \A d \in 1..(Len(node.key) - 1) : NodeAt(tree, SubSeq(node.key, 1, d)).type = "tree"

\* findAndSet: the first node of the walk whose path is the one toggled
FindByPath(tree, path) ==
    LET walk == Preorder(tree, tree[1])
        hits == SelectSeq(walk, LAMBDA n : n.path = path)
    IN  IF Len(hits) = 0 THEN <<>> ELSE <<Head(hits)>>

\* the tie-break the other way: only an unchecked directory is filled
TargetValUncheckedOnly(statusMap, path) == StatusAt(statusMap, path) = "unchecked"

\* targetVal, App.tsx:144-145
TargetVal(statusMap, path) == StatusAt(statusMap, path) # "checked"

\* a set in place of a flip
ToggleFileSet(prev, path) == Put(prev, path, TRUE)

\* the updater handed to setSelection, App.tsx:139-159
ToggleFile(prev, path) == Put(prev, path, ~Sel(prev, path))

ToggleDir(tree, statusMap, prev, path) ==
    LET found == IF tree = NoTree THEN <<>> ELSE FindByPath(tree, path) IN
    IF Len(found) = 0 THEN prev
    ELSE PutAll(prev, BlobPaths(Preorder(tree, found[1])), TargetVal(statusMap, path))

handleToggleNext(tree, statusMap, prev, path, isFile) ==
    IF isFile THEN ToggleFile(prev, path) ELSE ToggleDir(tree, statusMap, prev, path)

\* App.tsx:164-174
BulkValue(type, node) ==
    IF type = "all" THEN TRUE
    ELSE IF type = "none" THEN FALSE
    ELSE Ext(node.name) \in CODE_EXTS

RECURSIVE BulkFill(_, _, _)
BulkFill(next, type, walk) ==
    IF Len(walk) = 0 THEN next
    ELSE BulkFill(IF Head(walk).type = "blob"
                  THEN Put(next, Head(walk).path, BulkValue(type, Head(walk)))
                  ELSE next,
                  type, Tail(walk))

bulkActionNext(tree, type) ==
    IF tree = NoTree THEN EmptyMap ELSE BulkFill(EmptyMap, type, Preorder(tree, tree[1]))

\* App.tsx:122-128
RECURSIVE InitialSelection(_, _)
InitialSelection(next, its) ==
    IF Len(its) = 0 THEN next
    ELSE InitialSelection(IF Head(its).type = "blob"
                          THEN Put(next, Head(its).path, Ext(Head(its).path) \in CODE_EXTS)
                          ELSE next,
                          Tail(its))

AppInit ==
    /\ items = <<>>
    /\ treeData = NoTree
    /\ selection = EmptyMap
    /\ selectionStatusMap = EmptyMap
    /\ isLoading = FALSE
    /\ error = NoError
    /\ hpc = "idle"
    /\ lastOp = NoOp
    /\ output = EmptyStr
    /\ isGenerating = FALSE
    /\ activeRepoDetails = NoRepo
    /\ gen = NoGen
    /\ rendered = EmptyStr

FetchIdle ==
    /\ files = <<>>
    /\ limit = 1
    /\ i = 0
    /\ req = <<>>
    /\ results = <<>>
    /\ fpc = "idle"
    /\ content = <<>>

\* handleFetch up to its first await (App.tsx:103-114), the URL being one parseRepoUrl accepts
HandleFetchStart ==
    /\ hpc = "idle"
    /\ isLoading' = TRUE
    /\ error' = NoError
    /\ treeData' = NoTree
    /\ selectionStatusMap' = computeStatusMap(NoTree, selection)
    /\ hpc' = "info"
    /\ items' = <<>>
    /\ output' = EmptyStr
    /\ \E details \in Repos : activeRepoDetails' = details
    /\ lastOp' = Op("fetchStart", EmptyStr, "undefined")
    /\ UNCHANGED <<selection, genVars, fetchVars>>

\* handleFetch with a URL parseRepoUrl rejects: try, catch and finally run in one go
HandleFetchBadUrl ==
    /\ hpc = "idle"
    /\ isLoading' = FALSE
    /\ error' = "Invalid GitHub repository URL."
    /\ treeData' = NoTree
    /\ selectionStatusMap' = computeStatusMap(NoTree, selection)
    /\ output' = EmptyStr
    /\ lastOp' = Op("fetchBadUrl", EmptyStr, "undefined")
    /\ UNCHANGED <<items, selection, hpc, activeRepoDetails, genVars, fetchVars>>

\* fetchRepoInfo, then fetchRepoSha, answer (App.tsx:114-116)
HandleFetchStep ==
    /\ hpc \in {"info", "sha"}
    /\ hpc' = IF hpc = "info" THEN "sha" ELSE "tree"
    /\ lastOp' = Op("fetchStep", EmptyStr, "undefined")
    /\ UNCHANGED <<items, treeData, selection, selectionStatusMap, isLoading, error,
                   output, activeRepoDetails, genVars, fetchVars>>

\* the awaited call rejects: catch and finally (App.tsx:131-135)
HandleFetchFail ==
    /\ hpc \in {"info", "sha", "tree"}
    /\ error' = IF hpc = "info" THEN "Failed to fetch repo info"
                ELSE IF hpc = "sha" THEN "Path not found or API error"
                ELSE "Repository tree fetch failed."
    /\ isLoading' = FALSE
    /\ hpc' = "idle"
    /\ lastOp' = Op("fetchFail", EmptyStr, "undefined")
    /\ UNCHANGED <<items, treeData, selection, selectionStatusMap,
                   output, activeRepoDetails, genVars, fetchVars>>

\* fetchRepoTree answers with the listing its (App.tsx:118-135)
FetchDone(its) ==
    /\ hpc = "tree"
    /\ items' = its
    /\ treeData' = buildTree(its)
    /\ selection' = InitialSelection(EmptyMap, its)
    /\ selectionStatusMap' = computeStatusMap(treeData', selection')
    /\ isLoading' = FALSE
    /\ hpc' = "idle"
    /\ lastOp' = Op("fetchDone", EmptyStr, "undefined")
    /\ UNCHANGED <<error, output, activeRepoDetails>>

HandleFetchDone == \E its \in Listings : FetchDone(its) /\ UNCHANGED <<genVars, fetchVars>>

\* fetchRepoTree answers with a body that has no tree array: data.tree is
\* undefined, items.forEach throws inside buildTree, catch and finally run
\* (App.tsx:118-119,131-135)
HandleFetchMalformed ==
    /\ hpc = "tree"
    /\ error' = "Cannot read properties of undefined (reading 'forEach')"
    /\ isLoading' = FALSE
    /\ hpc' = "idle"
    /\ lastOp' = Op("fetchMalformed", EmptyStr, "undefined")
    /\ UNCHANGED <<items, treeData, selection, selectionStatusMap,
                   output, activeRepoDetails, genVars, fetchVars>>

\* a click on the selection icon of a rendered row (FileTree onClick, App.tsx:138-160)
HandleToggle ==
    /\ treeData # NoTree
    /\ \E n \in 2..Len(treeData) :
          LET node == treeData[n] IN
          /\ Rendered(treeData, node)
          /\ selection' = handleToggleNext(treeData, selectionStatusMap, selection,
                                           node.path, node.type # "tree")
          /\ lastOp' = IF node.type # "tree"
                        THEN Op("toggleFile", node.path, "undefined")
                        ELSE Op("toggleDir", node.path, StatusAt(selectionStatusMap, node.path))
    /\ selectionStatusMap' = computeStatusMap(treeData, selection')
    /\ UNCHANGED <<items, treeData, isLoading, error, hpc,
                   output, activeRepoDetails, genVars, fetchVars>>

\* App.tsx:162-177
BulkAction ==
    /\ \E type \in {"all", "none", "code"} :
          /\ selection' = bulkActionNext(treeData, type)
          /\ lastOp' = Op(type, EmptyStr, "undefined")
    /\ selectionStatusMap' = computeStatusMap(treeData, selection')
    /\ UNCHANGED <<items, treeData, isLoading, error, hpc,
                   output, activeRepoDetails, genVars, fetchVars>>

Init == AppInit /\ FetchIdle

Next ==
    \/ HandleFetchStart
    \/ HandleFetchBadUrl
    \/ HandleFetchStep
    \/ HandleFetchFail
    \/ HandleFetchDone
    \/ HandleFetchMalformed
    \/ HandleToggle
    \/ BulkAction

Spec == Init /\ [][Next]_vars

----------------------------------------------------------------------------
(* fetchFileContents (githubService.ts:58-92) *)

FilePool == { <<"a", Dot, "ts">>, <<"a", Dot, "PNG">> }
FileLists == UNION { [1..n -> FilePool] : n \in 0..MaxFiles }
FileOf(path, k) == [path |-> path, url |-> UrlOf(k)]

\* the awaits of the callback of chunk.map, in order, and how it settles
Unsettled == {"fetch", "blob", "reader", "text"}
Settled == {"done", "null", "failed"}

\* githubService.ts:69-70
isImage(file) == Ext(file.path) \in IMAGE_EXTENSIONS

\* a window one item too wide
ChunkOneMore(fs, idx, lim) == Slice(fs, idx, idx + lim + 1)

\* githubService.ts:66
Chunk(fs, idx, lim) == Slice(fs, idx, idx + lim)

\* the positions (1-based) of the window that starts at idx
Window(fs, idx, lim) == (idx + 1)..(idx + Len(Chunk(fs, idx, lim)))

\* chunk.map(async ...) runs every callback up to its first await: fetch is issued
Issue(r, fs, idx, lim) ==
    [k \in 1..Len(r) |-> IF k \in Window(fs, idx, lim) THEN "fetch" ELSE r[k]]

\* Promise.race in place of Promise.all: the first callback to settle ends the await
WindowAnySettled(r, fs, idx, lim) == \E k \in Window(fs, idx, lim) : r[k] \in Settled

\* Promise.all(...) is fulfilled: every promise of the window is fulfilled
WindowSettled(r, fs, idx, lim) == \A k \in Window(fs, idx, lim) : r[k] \in Settled

\* what a text file may hold, and the blob.type of an image
Texts == { EmptyStr, <<"x">> }
MimeTypes == { <<"image/png">> }

\* githubService.ts:82,85: the record of a file whose body was read as `body`
Record(file, body) ==
    IF isImage(file)
    THEN [path |-> file.path, url |-> file.url, type |-> "image",
          text |-> Undefined, mimeType |-> body]
    ELSE [path |-> file.path, url |-> file.url, type |-> "text",
          text |-> body, mimeType |-> Undefined]

\* chunkResults.filter(Boolean), githubService.ts:89
ChunkResults(r, c, fs, idx, lim) ==
    LET ks == SelectSeq([k \in 1..Len(fs) |-> k],
                        LAMBDA k : k \in Window(fs, idx, lim) /\ r[k] = "done")
    IN  [n \in 1..Len(ks) |-> Record(fs[ks[n]], c[ks[n]])]

\* The loop from its head (githubService.ts:65): issue the window at idx, or
\* return.  The value is what the call's variables become.
LoopHead(r, idx, res) ==
    IF idx < Len(files)
    THEN [req |-> Issue(r, files, idx, limit), fpc |-> "await", i |-> idx, results |-> res]
    ELSE [req |-> r, fpc |-> "returned", i |-> idx, results |-> res]

\* What runs when the callback of file k settles as r[k]: nothing unless the call
\* is still awaiting Promise.all; a rejection rejects Promise.all at once and the
\* call throws; the last fulfilment of the window resumes the loop.  c is the
\* bodies read so far.
Settle(r, c, k) ==
    IF fpc # "await"
    THEN [req |-> r, fpc |-> fpc, i |-> i, results |-> results]
    ELSE IF r[k] = "failed"
    THEN [req |-> r, fpc |-> "threw", i |-> i, results |-> results]
    ELSE IF WindowSettled(r, files, i, limit)
    THEN LoopHead(r, i + limit, results \o ChunkResults(r, c, files, i, limit))
    ELSE [req |-> r, fpc |-> fpc, i |-> i, results |-> results]

\* the call's variables take the values of o
Continue(o) == req' = o.req /\ fpc' = o.fpc /\ i' = o.i /\ results' = o.results

Resume(r, c, k) == Continue(Settle(r, c, k)) /\ content' = c

FetchAllInit ==
    /\ AppInit
    /\ \E fl \in FileLists : files = [k \in 1..Len(fl) |-> FileOf(fl[k], k)]
    /\ limit \in 1..MaxLimit
    /\ i = 0
    /\ req = [k \in 1..Len(files) |-> "none"]
    /\ results = <<>>
    /\ fpc = "idle"
    /\ content = [k \in 1..Len(files) |-> Undefined]

\* the call itself: runs to the first await, or to the return for an empty list
CallFetchFileContents ==
    /\ fpc = "idle"
    /\ Continue(LoopHead(req, 0, <<>>))
    /\ UNCHANGED <<files, limit, content, appVars>>

\* req once fetch(file.url) of file k answers with a success status
FetchedOk(k) == [req EXCEPT ![k] = IF isImage(files[k]) THEN "blob" ELSE "text"]
\* req once response.text() or response.blob() of file k is fulfilled
BodyRead(k) == [req EXCEPT ![k] = IF req[k] = "blob" THEN "reader" ELSE "done"]
\* what the body of file k may be: a blob.type for an image, a text otherwise
Bodies(k) == IF req[k] = "blob" THEN MimeTypes ELSE Texts

\* fetch(file.url) answers with a success status
FetchOk ==
    \E k \in 1..Len(files) :
        /\ req[k] = "fetch"
        /\ Resume(FetchedOk(k), content, k)
        /\ UNCHANGED <<files, limit, appVars>>

\* fetch(file.url) answers with a non-success status: the callback returns null
FetchNotOk ==
    \E k \in 1..Len(files) :
        /\ req[k] = "fetch"
        /\ Resume([req EXCEPT ![k] = "null"], content, k)
        /\ UNCHANGED <<files, limit, appVars>>

\* fetch(file.url) rejects (network error): nothing catches it in the callback
FetchReject ==
    \E k \in 1..Len(files) :
        /\ req[k] = "fetch"
        /\ Resume([req EXCEPT ![k] = "failed"], content, k)
        /\ UNCHANGED <<files, limit, appVars>>

\* response.text() or response.blob() is fulfilled
BodyOk ==
    \E k \in 1..Len(files) :
        /\ req[k] \in {"text", "blob"}
        /\ \E body \in Bodies(k) : Resume(BodyRead(k), [content EXCEPT ![k] = body], k)
        /\ UNCHANGED <<files, limit, appVars>>

\* response.text() or response.blob() rejects (the connection drops mid-body)
BodyReject ==
    \E k \in 1..Len(files) :
        /\ req[k] \in {"text", "blob"}
        /\ Resume([req EXCEPT ![k] = "failed"], content, k)
        /\ UNCHANGED <<files, limit, appVars>>

\* reader.onloadend fires
ReaderLoadEnd ==
    \E k \in 1..Len(files) :
        /\ req[k] = "reader"
        /\ Resume([req EXCEPT ![k] = "done"], content, k)
        /\ UNCHANGED <<files, limit, appVars>>

FetchAllNext ==
    \/ CallFetchFileContents
    \/ FetchOk
    \/ FetchNotOk
    \/ FetchReject
    \/ BodyOk
    \/ BodyReject
    \/ ReaderLoadEnd

SpecFetchAll == FetchAllInit /\ [][FetchAllNext]_vars

----------------------------------------------------------------------------
(* generateOutput (App.tsx:179-204) *)

CONCURRENCY_LIMIT == 10
MarkerLen == 80

RECURSIVE Repeat(_, _)
\* String.prototype.repeat
Repeat(c, n) == IF n = 0 THEN EmptyStr ELSE <<c>> \o Repeat(c, n - 1)

\* the selection ignored: every blob is taken
SelectedFilesAll(tree, sel) ==
    LET hits == SelectSeq(Preorder(tree, tree[1]), LAMBDA n : n.type = "blob")
    IN  [k \in 1..Len(hits) |-> [path |-> hits[k].path, url |-> hits[k].url]]

\* traverse (App.tsx:183-187): the selected blobs in walk order
SelectedFiles(tree, sel) ==
    LET hits == SelectSeq(Preorder(tree, tree[1]),
                          LAMBDA n : n.type = "blob" /\ Sel(sel, n.path))
    IN  [k \in 1..Len(hits) |-> [path |-> hits[k].path, url |-> hits[k].url]]

\* what || takes for false in a string operand
Falsy(v) == v = EmptyStr \/ v = Undefined

\* file.text || `[Binary/Image Data: ${file.mimeType}]`, App.tsx:196
SectionBody(file) ==
    IF Falsy(file.text) THEN <<"[Binary/Image Data: ">> \o file.mimeType \o <<"]">>
    ELSE file.text

\* the body of contents.forEach, App.tsx:196
Section(file) ==
    <<NL>> \o Repeat("=", MarkerLen) \o <<NL, "FILE: ">> \o file.path \o <<NL>>
    \o Repeat("=", MarkerLen) \o <<NL, NL>> \o SectionBody(file) \o <<NL>>

\* the last record only
SectionsLastOnly(contents) ==
    IF Len(contents) = 0 THEN EmptyStr ELSE Section(contents[Len(contents)])

\* contents.forEach(file => formatted += ...), App.tsx:195-197
Sections(contents) == Concat([k \in 1..Len(contents) |-> Section(contents[k])])

\* App.tsx:192-197
Formatted(details, tree, contents) ==
    <<"REPOSITORY: ">> \o details.owner \o <<Slash>> \o details.repo
    \o <<NL, "STRUCTURE:", NL>> \o AsciiIndex(tree) \o <<NL, NL>>
    \o Sections(contents)

\* generateOutput with no selected blob in the tree: the throw of App.tsx:189,
\* catch and finally run before anything is awaited
GenerateOutputNoneSelected ==
    /\ treeData # NoTree
    /\ ~isGenerating
    /\ Len(SelectedFiles(treeData, selection)) = 0
    /\ error' = "No files selected"
    /\ isGenerating' = FALSE
    /\ lastOp' = Op("generateNone", EmptyStr, "undefined")
    /\ UNCHANGED <<items, treeData, selection, selectionStatusMap, isLoading, hpc,
                   output, activeRepoDetails, gen, rendered, fetchVars>>

\* generateOutput up to its await: fetchFileContents is called with the selected
\* files and issues its first window (App.tsx:180-191, githubService.ts:58-68).
\* The closure keeps the treeData and activeRepoDetails of the render it was made in.
GenerateOutputCall ==
    /\ treeData # NoTree
    /\ ~isGenerating
    /\ Len(SelectedFiles(treeData, selection)) > 0
    /\ isGenerating' = TRUE
    /\ gen' = [tree |-> treeData, repo |-> activeRepoDetails]
    /\ files' = SelectedFiles(treeData, selection)
    /\ limit' = CONCURRENCY_LIMIT
    /\ i' = 0
    /\ req' = Issue([k \in 1..Len(files') |-> "none"], files', 0, limit')
    /\ content' = [k \in 1..Len(files') |-> Undefined]
    /\ results' = << >>
    /\ fpc' = "await"
    /\ lastOp' = Op("generateCall", EmptyStr, "undefined")
    /\ UNCHANGED <<items, treeData, selection, selectionStatusMap, isLoading, error, hpc,
                   output, activeRepoDetails, rendered>>

\* what lastOp holds once a generation has assembled its bundle: the records
\* fetchFileContents returned and what the closure held
OpDone(contents, closure) ==
    [op |-> "generateDone", path |-> EmptyStr, status |-> "undefined",
     contents |-> contents, closure |-> closure]

\* the call of fetchFileContents and the closure are gone
GenerateOutputEnd ==
    /\ isGenerating' = FALSE
    /\ gen' = NoGen
    /\ files' = << >> /\ limit' = 1 /\ i' = 0 /\ req' = << >> /\ results' = << >>
    /\ fpc' = "idle" /\ content' = << >>

\* generateOutput after its await (App.tsx:191-203), run when the callback of
\* file k settling as r[k] makes fetchFileContents return or throw; any other
\* settling touches nothing of the App.  Once fetchFileContents has thrown, the
\* callbacks still pending settle unobserved and are followed no further.
GenerateOutputResume(r, c, k) ==
    LET o == Settle(r, c, k) IN
    /\ IF fpc = "await" /\ o.fpc = "returned"
       THEN /\ output' = Formatted(gen.repo, gen.tree, o.results)
            /\ lastOp' = OpDone(o.results, gen)
            /\ GenerateOutputEnd
            /\ UNCHANGED error
       ELSE IF fpc = "await" /\ o.fpc = "threw"
       THEN /\ error' = "Failed to fetch"
            /\ lastOp' = Op("generateThrew", EmptyStr, "undefined")
            /\ GenerateOutputEnd
            /\ UNCHANGED output
       ELSE /\ Continue(o) /\ content' = c
            /\ lastOp' = Op("callback", EmptyStr, "undefined")
            /\ UNCHANGED <<output, error, isGenerating, gen, files, limit>>
    /\ UNCHANGED <<items, treeData, selection, selectionStatusMap, isLoading, hpc,
                   activeRepoDetails, rendered>>

GenFetchOk ==
    \E k \in 1..Len(files) :
        req[k] = "fetch" /\ GenerateOutputResume(FetchedOk(k), content, k)

GenFetchNotOk ==
    \E k \in 1..Len(files) :
        req[k] = "fetch" /\ GenerateOutputResume([req EXCEPT ![k] = "null"], content, k)

GenFetchReject ==
    \E k \in 1..Len(files) :
        req[k] = "fetch" /\ GenerateOutputResume([req EXCEPT ![k] = "failed"], content, k)

GenBodyOk ==
    \E k \in 1..Len(files) :
        /\ req[k] \in {"text", "blob"}
        /\ \E body \in Bodies(k) :
              GenerateOutputResume(BodyRead(k), [content EXCEPT ![k] = body], k)

GenBodyReject ==
    \E k \in 1..Len(files) :
        /\ req[k] \in {"text", "blob"}
        /\ GenerateOutputResume([req EXCEPT ![k] = "failed"], content, k)

GenReaderLoadEnd ==
    \E k \in 1..Len(files) :
        req[k] = "reader" /\ GenerateOutputResume([req EXCEPT ![k] = "done"], content, k)

\* the listings of the sessions that generate: few records, a source file and an image for names
GenNames == { <<"b", Dot, "ts">>, <<"c", Dot, "png">> }
GenPaths ==
    { Join(segs, Slash) : segs \in UNION { [1..n -> GenNames] : n \in 1..MaxGenDepth } }
GenListings ==
    { WithRefs(its) : its \in UNION { ListingsOver(GenPaths, n) : n \in 0..MaxGenListing } }

HandleFetchDoneGen ==
    \E its \in GenListings : FetchDone(its) /\ UNCHANGED <<genVars, fetchVars>>

GenNext ==
    \/ HandleFetchStart
    \/ HandleFetchBadUrl
    \/ HandleFetchStep
    \/ HandleFetchFail
    \/ HandleFetchDoneGen
    \/ HandleFetchMalformed
    \/ HandleToggle
    \/ BulkAction
    \/ GenerateOutputNoneSelected
    \/ GenerateOutputCall
    \/ GenFetchOk
    \/ GenFetchNotOk
    \/ GenFetchReject
    \/ GenBodyOk
    \/ GenBodyReject
    \/ GenReaderLoadEnd

SpecGen == Init /\ [][GenNext]_vars

\* Generation on a repository that is loaded and stays loaded: the tree of a
\* finished fetch cycle, any SelectionState the toggles can leave on it, and on
\* screen either no output or the bundle of an earlier generation whose content
\* requests all answered with a non-success status.
PriorOutputs(details, tree) ==
    { EmptyStr } \cup (IF \E n \in 1..Len(tree) : tree[n].type = "blob"
                       THEN { Formatted(details, tree, << >>) } ELSE {})

LoadedInit ==
    /\ \E its \in GenListings, details \in Repos :
          /\ items = its
          /\ treeData = buildTree(its)
          /\ activeRepoDetails = details
          /\ output \in PriorOutputs(details, buildTree(its))
    /\ selection \in [{ treeData[n].path : n \in { m \in 1..Len(treeData) :
                                                     treeData[m].type = "blob" } } -> BOOLEAN]
    /\ selectionStatusMap = computeStatusMap(treeData, selection)
    /\ isLoading = FALSE
    /\ error = NoError
    /\ hpc = "idle"
    /\ lastOp = NoOp
    /\ isGenerating = FALSE
    /\ gen = NoGen
    /\ rendered = EmptyStr
    /\ FetchIdle

BundleNext ==
    \/ GenerateOutputNoneSelected
    \/ GenerateOutputCall
    \/ GenFetchOk
    \/ GenFetchNotOk
    \/ GenFetchReject
    \/ GenBodyOk
    \/ GenBodyReject
    \/ GenReaderLoadEnd

SpecBundle == LoadedInit /\ [][BundleNext]_vars

----------------------------------------------------------------------------
(* Claims on fetchFileContents, checked under SpecFetchAll *)

\* the callbacks that have issued a request and have not settled
Outstanding == { k \in 1..Len(req) : req[k] \in Unsettled }

\* the window of the partition into runs of `limit` items that position k falls in
WindowIndex(k) == (k - 1) \div limit

\* C1: at every instant of a run of fetchFileContents, for every window size
\* limit >= 1 and every number of files, the requests issued and not yet
\* settled number at most limit.
C1_InFlightBounded == Cardinality(Outstanding) <= limit

\* a later window of a multi-window run is in flight in full
C1_Witness == limit >= 2 /\ i >= limit /\ Cardinality(Outstanding) = limit

\* C2: no request of a later window is issued before every request of every
\* earlier window has settled, whatever the outcomes.
C2_WindowsInOrder ==
    \A j, k \in 1..Len(req) :
        (WindowIndex(j) < WindowIndex(k) /\ req[k] # "none") => req[j] \in Settled

\* a second window is issued after a first one that held a failed (non-success) item
C2_Witness ==
    \E j, k \in 1..Len(req) :
        WindowIndex(j) < WindowIndex(k) /\ req[k] \in Unsettled /\ req[j] = "null"

\* C3 (as claimed): once an item has failed, by rejection or by status, the call
\* still ends by returning, with every file processed and a record for exactly
\* the items that succeeded, in input order.
C3_FailureIsolated ==
    ((\E k \in 1..Len(req) : req[k] \in {"null", "failed"}) /\ fpc \in {"returned", "threw"})
        => /\ fpc = "returned"
           /\ \A k \in 1..Len(req) : req[k] \in Settled
           /\ results = ChunkResults(req, content, files, 0, Len(files))

\* C4 (as claimed): the call never ends, by returning or by throwing, while a
\* request it issued is unsettled.
C4_EndsOnlyWhenAllSettled == fpc \in {"returned", "threw"} => Outstanding = {}

----------------------------------------------------------------------------
(* Claims on the selection engine, checked under Spec *)

Nodes(tree) == { tree[n] : n \in 1..Len(tree) }
ChildSet(tree, node) ==
    { c \in Nodes(tree) : Len(c.key) = Len(node.key) + 1 /\ IsPrefix(node.key, c.key) }

\* the paths of the blob nodes strictly below the node
DescendantLeaves(tree, node) ==
    { c.path : c \in { d \in Nodes(tree) :
                         d.type = "blob" /\ d.key # node.key /\ IsPrefix(node.key, d.key) } }

DirsAt(tree, path) == { d \in Nodes(tree) : d.type = "tree" /\ d.path = path /\ Len(d.key) >= 1 }

\* C5: the status map gives each leaf checked iff its SelectionState entry is
\* true and unchecked otherwise, each interior node without children unchecked,
\* and each interior node with children checked iff all its children are
\* checked, unchecked iff all are unchecked, indeterminate otherwise.
C5_StatusDerivation ==
    treeData # NoTree =>
        \A node \in Nodes(treeData) :
            LET st == StatusAt(selectionStatusMap, node.path)
                kids == ChildSet(treeData, node)
                kid(c) == StatusAt(selectionStatusMap, c.path)
            IN  IF node.type = "blob"
                THEN st = (IF node.path \in DOMAIN selection /\ selection[node.path] = TRUE
                           THEN "checked" ELSE "unchecked")
                ELSE IF kids = {} THEN st = "unchecked"
                ELSE /\ st = "checked" <=> \A c \in kids : kid(c) = "checked"
                     /\ st = "unchecked" <=> \A c \in kids : kid(c) = "unchecked"
                     /\ st = "indeterminate" <=>
                            /\ \E c \in kids : kid(c) # "checked"
                            /\ \E c \in kids : kid(c) # "unchecked"

\* a directory below the root is indeterminate: it holds a checked file and an
\* unchecked directory that has a file of its own
C5_Witness ==
    /\ treeData # NoTree
    /\ \E node \in Nodes(treeData) :
          /\ Len(node.key) >= 1
          /\ selectionStatusMap[node.path] = "indeterminate"
          /\ \E c, d \in ChildSet(treeData, node) :
                /\ c.type = "blob" /\ selectionStatusMap[c.path] = "checked"
                /\ d.type = "tree" /\ selectionStatusMap[d.path] = "unchecked"
                /\ ChildSet(treeData, d) # {}

\* C6 (as claimed): in every state, an interior node with children is checked
\* iff every leaf below it is selected, unchecked iff none is, and
\* indeterminate otherwise; a directory without children is unchecked.
C6_StatusByLeaves ==
    treeData # NoTree =>
        \A node \in Nodes(treeData) :
            node.type = "tree" =>
                LET st == StatusAt(selectionStatusMap, node.path)
                    leaves == DescendantLeaves(treeData, node)
                    on == { l \in leaves : Sel(selection, l) }
                IN  IF ChildSet(treeData, node) = {} THEN st = "unchecked"
                    ELSE leaves # {} =>
                           /\ st = "checked" <=> on = leaves
                           /\ st = "unchecked" <=> on = {}
                           /\ st = "indeterminate" <=> (on # leaves /\ on # {})

\* C7: a toggle of a directory whose status, derived from the SelectionState it
\* meets, is indeterminate or unchecked leaves every leaf below it selected; a
\* toggle of a checked directory leaves every leaf below it cleared.
C7_ToggleDirectory ==
    [][ lastOp'.op = "toggleDir" =>
          \A d \in DirsAt(treeData, lastOp'.path) :
              LET st == StatusAt(computeStatusMap(treeData, selection), d.path)
                  leaves == DescendantLeaves(treeData, d)
              IN  /\ st \in {"indeterminate", "unchecked"} =>
                        \A l \in leaves : l \in DOMAIN selection' /\ selection'[l] = TRUE
                  /\ st = "checked" =>
                        \A l \in leaves : l \in DOMAIN selection' /\ selection'[l] = FALSE
      ]_vars

\* an indeterminate directory with leaves at two depths has just been toggled
C7_Witness ==
    /\ lastOp.op = "toggleDir"
    /\ lastOp.status = "indeterminate"
    /\ \E d \in DirsAt(treeData, lastOp.path) :
          \E c, e \in Nodes(treeData) :
              /\ c.type = "blob" /\ e.type = "blob"
              /\ IsPrefix(d.key, c.key) /\ Len(c.key) = Len(d.key) + 1
              /\ IsPrefix(d.key, e.key) /\ Len(e.key) = Len(d.key) + 2

\* C8: a toggle of a blob's path flips the boolean of that path, an absent entry
\* counting as false, and changes nothing else: every other entry of
\* SelectionState and the tree stay as they were.
C8_ToggleBlob ==
    [][ (lastOp'.op = "toggleFile"
           /\ \E b \in Nodes(treeData) : b.type = "blob" /\ b.path = lastOp'.path) =>
          LET p == lastOp'.path IN
          /\ treeData' = treeData
          /\ DOMAIN selection' = (DOMAIN selection) \cup {p}
          /\ selection'[p] = ~(p \in DOMAIN selection /\ selection[p] = TRUE)
          /\ \A q \in (DOMAIN selection) \ {p} : selection'[q] = selection[q]
      ]_vars

\* a selected blob has just been toggled off while another blob stays selected
C8_Witness ==
    /\ lastOp.op = "toggleFile"
    /\ lastOp.path \in DOMAIN selection /\ selection[lastOp.path] = FALSE
    /\ \E q \in DOMAIN selection : q # lastOp.path /\ selection[q] = TRUE

\* C14 (as claimed): a fetch cycle that meets an input error (the listing
\* request fails, the listing is malformed, or the listing has no entries) ends
\* with an error shown and with no tree.
C14_InputErrorEndsWithoutTree ==
    (\/ lastOp.op \in {"fetchFail", "fetchMalformed"}
     \/ (lastOp.op = "fetchDone" /\ items = << >>))
        => (error # NoError /\ treeData = NoTree)

\* C18 (as claimed): in every state, every path of SelectionState is the path
\* of a blob node of the current tree; nothing is left of a discarded tree.
C18_SelectionWithinTree ==
    \A p \in DOMAIN selection :
        /\ treeData # NoTree
        /\ \E n \in Nodes(treeData) : n.type = "blob" /\ n.path = p

\* C20 (as claimed): after a toggle of a directory that has a leaf below it, the
\* recomputed status of the directory is unchecked if it was checked before the
\* toggle and checked otherwise, never indeterminate.
C20_ToggleGivesDefiniteStatus ==
    (/\ lastOp.op = "toggleDir"
     /\ \E d \in DirsAt(treeData, lastOp.path) : DescendantLeaves(treeData, d) # {})
        => StatusAt(selectionStatusMap, lastOp.path)
             = (IF lastOp.status = "checked" THEN "unchecked" ELSE "checked")

----------------------------------------------------------------------------
(* Claims on generateOutput, checked under SpecBundle and SpecGen *)

NoBlobSelected ==
    treeData # NoTree /\ \A n \in Nodes(treeData) : n.type = "blob" => ~Sel(selection, n.path)

\* C13: a generation requested while no blob of the tree is selected ends at
\* once with the error "No files selected"; it issues no content request,
\* leaves the shown output as it was and leaves the generating flag false.
C13_NothingSelected ==
    [][ (lastOp'.op \in {"generateNone", "generateCall"} /\ NoBlobSelected) =>
          /\ error' = "No files selected"
          /\ output' = output
          /\ isGenerating' = FALSE
          /\ UNCHANGED fetchVars
      ]_vars

\* such a request has just failed on a tree that has blobs, under the bundle
\* of an earlier generation
C13_Witness ==
    /\ lastOp.op = "generateNone"
    /\ error = "No files selected"
    /\ output # EmptyStr
    /\ \E n \in Nodes(treeData) : n.type = "blob"
    /\ ~isGenerating

\* the lines of the bundle, and the positions of those that start a label
BundleLines == Split(output, NL)
IsLabel(line) == Len(line) >= 1 /\ line[1] = "FILE: "
LabelAt ==
    SelectSeq([k \in 1..Len(BundleLines) |-> k], LAMBDA k : IsLabel(BundleLines[k]))
Marker == [k \in 1..MarkerLen |-> "="]

\* C16: the bundle starts with one header line that names the repository,
\* goes on with the structure text, and then has exactly one section per
\* content record, in the order of the records, each with its boundary marker
\* and the label FILE: <path>.
C16_BundleLayout ==
    lastOp.op = "generateDone" =>
        LET contents == lastOp.contents
            closure == lastOp.closure
            structure == Lines(AsciiIndex(closure.tree))
        IN  /\ BundleLines[1] = <<"REPOSITORY: ">> \o closure.repo.owner
                                  \o <<Slash>> \o closure.repo.repo
            /\ \A k \in 2..Len(BundleLines) :
                  ~(Len(BundleLines[k]) >= 1 /\ BundleLines[k][1] = "REPOSITORY: ")
            /\ SubSeq(BundleLines, 3, 2 + Len(structure)) = structure
            /\ Len(LabelAt) = Len(contents)
            /\ \A n \in 1..Len(LabelAt) :
                  /\ LabelAt[n] > 2 + Len(structure)
                  /\ BundleLines[LabelAt[n]] = <<"FILE: ">> \o contents[n].path
                  /\ BundleLines[LabelAt[n] - 1] = Marker
                  /\ BundleLines[LabelAt[n] + 1] = Marker

\* a bundle of two sections, an image after a text file
C16_Witness ==
    /\ lastOp.op = "generateDone"
    /\ Len(lastOp.contents) = 2
    /\ lastOp.contents[1].type = "text" /\ lastOp.contents[2].type = "image"
    /\ Len(LabelAt) = 2

\* C17 (as claimed): every finished generation leaves either a bundle or a
\* failure reason on screen, never a failure reason together with a bundle.
C17_BundleOrFailure ==
    lastOp.op \in {"generateDone", "generateThrew", "generateNone"} =>
        /\ output # EmptyStr \/ error # NoError
        /\ ~(output # EmptyStr /\ error \in {"No files selected", "Failed to fetch"})

\* C19 (as claimed): the section of a record shows the MIME placeholder exactly
\* when the record is binary; the section of a text record shows its text,
\* the empty text included.
C19_PlaceholderIffBinary ==
    lastOp.op = "generateDone" =>
        \A n \in 1..Len(LabelAt) :
            LET file == lastOp.contents[n]
                shown == BundleLines[LabelAt[n] + 3]
            IN  shown = (IF file.type = "image"
                         THEN <<"[Binary/Image Data: ">> \o file.mimeType \o <<"]">>
                         ELSE file.text)

\* C21 (as claimed): under every interleaving of a generation with a fetch
\* cycle, a bundle on screen was generated from the tree and the repository of
\* the latest fetch cycle; a generation started before a fetch cycle never
\* writes its bundle after that cycle has begun and cleared the output.
C21_BundleFromLatestCycle ==
    output # EmptyStr =>
        /\ treeData # NoTree
        /\ BundleLines[1] = <<"REPOSITORY: ">> \o activeRepoDetails.owner
                              \o <<Slash>> \o activeRepoDetails.repo
        /\ LET structure == Lines(AsciiIndex(treeData))
           IN  SubSeq(BundleLines, 3, 2 + Len(structure)) = structure

----------------------------------------------------------------------------
(* buildTree taken alone (App.tsx:18-39): any records, in any order *)

TreePaths == PathsTo(MaxTreeDepth)
TreeInputs == { WithRefs(its) : its \in UNION { RecordLists(TreePaths, n) : n \in 0..MaxItems } }

TreeInit ==
    /\ items \in TreeInputs
    /\ treeData = NoTree
    /\ selection = EmptyMap
    /\ selectionStatusMap = EmptyMap
    /\ isLoading = FALSE
    /\ error = NoError
    /\ hpc = "idle"
    /\ lastOp = NoOp
    /\ output = EmptyStr
    /\ isGenerating = FALSE
    /\ activeRepoDetails = NoRepo
    /\ gen = NoGen
    /\ rendered = EmptyStr
    /\ FetchIdle

BuildTreeCall ==
    /\ treeData = NoTree
    /\ treeData' = buildTree(items)
    /\ lastOp' = Op("buildTree", EmptyStr, "undefined")
    /\ UNCHANGED <<items, selection, selectionStatusMap, isLoading, error, hpc,
                   output, activeRepoDetails, genVars, fetchVars>>

BuildAsciiIndexCall ==
    /\ treeData # NoTree
    /\ lastOp.op = "buildTree"
    /\ rendered' = AsciiIndex(treeData)
    /\ lastOp' = Op("buildAsciiIndex", EmptyStr, "undefined")
    /\ UNCHANGED <<items, treeData, selection, selectionStatusMap, isLoading, error, hpc,
                   output, activeRepoDetails, isGenerating, gen, fetchVars>>

TreeNext ==
    \/ BuildTreeCall
    \/ BuildAsciiIndexCall

SpecTree == TreeInit /\ [][TreeNext]_vars

\* the nodes a full walk of the tree meets below the root
Walked(tree) == { n \in Nodes(tree) : Len(n.key) >= 1 /\ n \in Nodes(Preorder(tree, tree[1])) }

Records == { items[k] : k \in 1..Len(items) }

\* the proper prefixes of the input paths, as paths
ProperPrefixes ==
    UNION { { Join(SubSeq(Split(r.path, Slash), 1, d), Slash) :
                d \in 1..(Len(Split(r.path, Slash)) - 1) } : r \in Records }

\* the node is the last segment of the record's path
IsTerminalOf(node, r) == node.key = Split(r.path, Slash)

\* C9 (as claimed): for records with no duplicate paths, in any order, the walk
\* of the tree meets exactly one node per input path, with the record's kind and
\* contentRef, exactly one interior node per proper prefix that is no input
\* path, and no other node.
C9_WalkYieldsInput ==
    treeData # NoTree =>
        /\ \A r \in Records :
              /\ Cardinality({ n \in Walked(treeData) : n.path = r.path }) = 1
              /\ \A n \in Walked(treeData) :
                    n.path = r.path => n.type = r.type /\ n.sha = r.sha /\ n.url = r.url
        /\ \A q \in ProperPrefixes \ { r.path : r \in Records } :
              /\ Cardinality({ n \in Walked(treeData) : n.path = q }) = 1
              /\ \A n \in Walked(treeData) : n.path = q => n.type = "tree"
        /\ \A n \in Walked(treeData) :
              n.path \in { r.path : r \in Records } \cup ProperPrefixes

\* C10 (as claimed): every node that is a non-terminal segment of some input
\* path is of kind tree with an empty contentRef, and contentRef is populated
\* only for blob nodes.
C10_OnlyBlobsCarryRefs ==
    treeData # NoTree =>
        /\ \A n \in Walked(treeData) :
              n.path \in ProperPrefixes =>
                  n.type = "tree" /\ n.sha = EmptyStr /\ n.url = EmptyStr
        /\ \A n \in Walked(treeData) :
              (n.sha # EmptyStr \/ n.url # EmptyStr) => n.type = "blob"

\* C10 (amended): every node that is the terminal segment of no input record is
\* of kind tree with an empty contentRef; contentRef is populated only for
\* terminal segments of input records, of kind blob or tree.
C10_OnlyTerminalsCarryRefs ==
    treeData # NoTree =>
        \A n \in Walked(treeData) :
            (\A r \in Records : ~IsTerminalOf(n, r)) =>
                n.type = "tree" /\ n.sha = EmptyStr /\ n.url = EmptyStr

\* a tree with a directory no record lists, above a listed directory that
\* carries its record's contentRef
C10_Witness ==
    /\ treeData # NoTree
    /\ \E n, m \in Walked(treeData) :
          /\ \A r \in Records : ~IsTerminalOf(n, r)
          /\ IsPrefix(n.key, m.key) /\ n.key # m.key
          /\ m.type = "tree" /\ m.sha # EmptyStr
          /\ \E r \in Records : IsTerminalOf(m, r)

----------------------------------------------------------------------------
(* buildTree and buildAsciiIndex taken alone: records in any order, segments  *)
(* that are empty or spell "root" included                                    *)

RenderNames == Names \cup { RootName, EmptyStr }
RenderPaths ==
    { Join(segs, Slash) : segs \in UNION { [1..n -> RenderNames] : n \in 1..MaxTreeDepth } }
RenderInputs ==
    { WithRefs(its) : its \in UNION { RecordLists(RenderPaths, n) : n \in 0..MaxItems } }

RenderInit ==
    /\ items \in RenderInputs
    /\ treeData = NoTree
    /\ selection = EmptyMap
    /\ selectionStatusMap = EmptyMap
    /\ isLoading = FALSE
    /\ error = NoError
    /\ hpc = "idle"
    /\ lastOp = NoOp
    /\ output = EmptyStr
    /\ isGenerating = FALSE
    /\ activeRepoDetails = NoRepo
    /\ gen = NoGen
    /\ rendered = EmptyStr
    /\ FetchIdle

SpecRender == RenderInit /\ [][TreeNext]_vars

\* the comparator of sortedChildren (FileTree): directories first, then by name
sortedBefore(a, b) ==
    IF (a.type = "tree") # (b.type = "tree") THEN a.type = "tree" ELSE StrLess(a.name, b.name)

RECURSIVE SortedWalk(_, _)
\* the walk that takes the children of every node in the order of sortedBefore
SortedWalk(ns, node) ==
    LET children == SortSeq(Children(ns, node.key), sortedBefore)
        RECURSIVE Each(_)
        Each(cs) == IF Len(cs) = 0 THEN <<>> ELSE SortedWalk(ns, Head(cs)) \o Each(Tail(cs))
    IN  <<node>> \o Each(children)

\* a line of the structure text without its indents and connector
LineName(line) ==
    SelectSeq(line, LAMBDA c : c \notin {LastConnector, MidConnector, LastIndent, MidIndent})
LineNames(text) == [k \in 1..Len(Lines(text)) |-> LineName(Lines(text)[k])]

Permuted(its, p) == [k \in 1..Len(its) |-> its[p[k]]]

\* C11 (as claimed): the structure text lists the entries of every level
\* directories first and then by name, whatever the order of the input records:
\* every permutation of the records renders to the same text.
C11_RenderOrderIndependent ==
    lastOp.op = "buildAsciiIndex" =>
        /\ LET walk == Tail(SortedWalk(treeData, treeData[1]))
           IN  LineNames(rendered) = [k \in 1..Len(walk) |-> walk[k].name]
        /\ \A p \in Permutations(1..Len(items)) :
              AsciiIndex(buildTree(Permuted(items, p))) = rendered

\* C12 (as claimed): the structure text has no line for the root and exactly
\* one line, carrying the node's name, for every other node of the tree,
\* whatever the nodes are named.
C12_OneLinePerNode ==
    lastOp.op = "buildAsciiIndex" =>
        /\ Len(Lines(rendered)) = Len(treeData) - 1
        /\ \A n \in 2..Len(treeData) :
              Cardinality({ k \in 1..Len(Lines(rendered)) :
                              LineNames(rendered)[k] = treeData[n].name })
                = Cardinality({ m \in 2..Len(treeData) : treeData[m].name = treeData[n].name })

\* C15 (as claimed): buildTree of an empty list, or of a record whose path is
\* empty, returns a root without children.
C15_DegenerateInputEmptyRoot ==
    (lastOp.op = "buildTree" /\ \A k \in 1..Len(items) : items[k].path = EmptyStr)
        => Children(treeData, << >>) = << >>

====
